---------------------------- MODULE Spec2Model ----------------------------
(***************************************************************************)
(* LAN Messaging Notifier: the FastAPI application of src/src/app.py.      *)
(* The registry of adapters built at startup, and the /notify handler      *)
(* that validates a request against the registry, sends the message to     *)
(* each target adapter and aggregates the per-platform results.            *)
(***************************************************************************)
EXTENDS Integers, Sequences, FiniteSets, TLC

(* ------------------------------ bounds ------------------------------- *)

\* Longest explicit platform list a request carries.
MaxPlatforms == 2

(* --------------------------- value spaces ---------------------------- *)

\* Python's None, as it appears in a result's error field.
NULL == "None"

\* The three platform kinds, in the order initialize_notifiers registers them
\* (dict insertion order, hence the order of list(notifiers.keys())).
PlatformOrder == <<"slack", "telegram", "whatsapp">>

Platforms == {PlatformOrder[i] : i \in 1..Len(PlatformOrder)}

\* Identifiers a request may name: the three kinds and one unknown name.
PlatformIds == Platforms \cup {"invalid_platform"}

\* A configuration string is a sequence of tokens, so that a prefix can be
\* told from the rest; the empty sequence is the empty string, and an unset
\* variable (None) is as falsy as it.
UNSET == <<>>

\* An environment field is either unset/empty (falsy) or set (truthy).
FieldValues == {UNSET, <<"set">>}

\* The channel-scheme prefix of a WhatsApp address.
PREFIX == "whatsapp:"

\* A configured WhatsApp address: unset, a bare number, or a number that
\* already carries the prefix.
NumberValues == {UNSET, <<"+14155238886">>, <<PREFIX, "+14155238886">>}

\* The message key of a request body: absent, the empty string, or a text.
ABSENT == "<absent>"
Messages == {ABSENT, "", "Test message"}

\* What the vendor service does with one call.
VendorOutcomes == {"accept", "reject"}

VARIABLES
    pc,         \* the process's position: "boot", "aborted", "serving" (waiting
                \* for a request) or "responding" (a response is ready)
    config,     \* the global Config instance (config.py:100)
    faults,     \* the platforms whose adapter construction raised at startup
    notifiers,  \* the registry: platform identifier -> adapter (app.py:72)
    route,      \* the endpoint of the request being answered
    request,    \* the /notify request being answered
    response,   \* the response to it
    calls,      \* send_message invocations made while answering it, in order
    events,     \* what the /notify handler did, in order: a send issued, a
                \* send completed, the aggregation of the response
    unit        \* an adapter class used directly, outside the application:
                \* the dict given, the object built, the last call's outcome

vars == <<pc, config, faults, notifiers, route, request, response, calls, events,
          unit>>

(* --------------------------- configuration --------------------------- *)

\* bool(x) of an Optional[str]
Truthy(x) == x # UNSET

SlackIsEnabled(c) == Truthy(c.token)

TelegramIsEnabled(c) == Truthy(c.token) /\ Truthy(c.chat_id)

WhatsAppIsEnabled(c) ==
    /\ Truthy(c.account_sid)
    /\ Truthy(c.auth_token)
    /\ Truthy(c.from_number)
    /\ Truthy(c.to_number)

IsEnabled(cfg, p) ==
    CASE p = "slack"    -> SlackIsEnabled(cfg.slack)
      [] p = "telegram" -> TelegramIsEnabled(cfg.telegram)
      [] p = "whatsapp" -> WhatsAppIsEnabled(cfg.whatsapp)

\* Config.get_enabled_platforms, as a set
GetEnabledPlatforms(cfg) == {p \in Platforms : IsEnabled(cfg, p)}

\* Config.validate: raises RuntimeError when no platform is enabled
ConfigValidateRaises(cfg) == GetEnabledPlatforms(cfg) = {}

Configs ==
    [slack    : [token : FieldValues],
     telegram : [token : FieldValues, chat_id : FieldValues],
     whatsapp : [account_sid : FieldValues, auth_token : FieldValues,
                 from_number : NumberValues, to_number : NumberValues]]

(* ----------------------- adapters: construction ---------------------- *)

\* The empty dict
EmptyDict == [p \in {} |-> NULL]

\* d[k] = v
DictSet(d, k, v) == [x \in DOMAIN d \cup {k} |-> IF x = k THEN v ELSE d[x]]

\* "k not in self.config or not self.config[k]"
Missing(d, k) == k \notin DOMAIN d \/ d[k] = <<>>

\* s.startswith('whatsapp:')
StartsWithPrefix(s) == Len(s) >= 1 /\ s[1] = PREFIX

\* A normalisation that prepends the prefix whatever the value is.
EnsurePrefixAlways(s) == <<PREFIX>> \o s

\* s if s.startswith('whatsapp:') else f"whatsapp:{s}"
EnsurePrefix(s) == IF StartsWithPrefix(s) THEN s ELSE <<PREFIX>> \o s

\* No object: the constructor raised.
NoAdapter == [kind |-> "none", client |-> FALSE, config |-> EmptyDict]

\* The outcome of a constructor call: the object, or the exception raised.
Constructed(kind, d) ==
    [raised |-> FALSE, error |-> NULL,
     adapter |-> [kind |-> kind, client |-> TRUE, config |-> d]]
ConstructionRaises(msg) == [raised |-> TRUE, error |-> msg, adapter |-> NoAdapter]

\* SlackNotifier(d): client = None, then validate_config, which requires the
\* token, defaults the channel and builds the WebClient (clientRaises: that
\* construction raises).
SlackNotifier(d, clientRaises) ==
    IF Missing(d, "token") THEN ConstructionRaises("Slack token is required")
    ELSE IF clientRaises THEN ConstructionRaises("WebClient construction failed")
    ELSE Constructed("slack",
                     IF "channel" \notin DOMAIN d
                     THEN DictSet(d, "channel", <<"#general">>) ELSE d)

\* TelegramNotifier(d): bot = None, then validate_config, which requires the
\* token and the chat_id and builds the Bot.
TelegramNotifier(d, clientRaises) ==
    IF Missing(d, "token") THEN ConstructionRaises("Telegram token is required")
    ELSE IF Missing(d, "chat_id")
    THEN ConstructionRaises("Telegram chat_id is required")
    ELSE IF clientRaises THEN ConstructionRaises("Bot construction failed")
    ELSE Constructed("telegram", d)

\* required_fields of WhatsAppNotifier.validate_config, in check order
WhatsAppRequiredFields == <<"account_sid", "auth_token", "from_number", "to_number">>

\* f"WhatsApp {field} is required"
WhatsAppRequiredError(field) ==
    CASE field = "account_sid" -> "WhatsApp account_sid is required"
      [] field = "auth_token"  -> "WhatsApp auth_token is required"
      [] field = "from_number" -> "WhatsApp from_number is required"
      [] field = "to_number"   -> "WhatsApp to_number is required"

\* A constructor that reports the last missing required field.
WhatsAppNotifierNamesLast(d, clientRaises) ==
    LET missing == SelectSeq(WhatsAppRequiredFields, LAMBDA f : Missing(d, f))
    IN  IF missing # <<>>
        THEN ConstructionRaises(WhatsAppRequiredError(missing[Len(missing)]))
        ELSE IF clientRaises THEN ConstructionRaises("Client construction failed")
        ELSE Constructed("whatsapp",
                 [d EXCEPT !["from_number"] = EnsurePrefix(d["from_number"]),
                           !["to_number"] = EnsurePrefix(d["to_number"])])

\* WhatsAppNotifier(d): client = None, then validate_config, which raises at
\* the first missing required field, prefixes the two addresses and builds
\* the Twilio Client.
WhatsAppNotifier(d, clientRaises) ==
    LET missing == SelectSeq(WhatsAppRequiredFields, LAMBDA f : Missing(d, f))
    IN  IF missing # <<>> THEN ConstructionRaises(WhatsAppRequiredError(missing[1]))
        ELSE IF clientRaises THEN ConstructionRaises("Client construction failed")
        ELSE Constructed("whatsapp",
                 [d EXCEPT !["from_number"] = EnsurePrefix(d["from_number"]),
                           !["to_number"] = EnsurePrefix(d["to_number"])])

\* The constructor of a platform kind's adapter class.
Construct(kind, d, clientRaises) ==
    CASE kind = "slack"    -> SlackNotifier(d, clientRaises)
      [] kind = "telegram" -> TelegramNotifier(d, clientRaises)
      [] kind = "whatsapp" -> WhatsAppNotifier(d, clientRaises)

(* ----------------------------- registry ------------------------------ *)

\* The dict initialize_notifiers hands to a platform's constructor.
ConfigDict(cfg, p) ==
    CASE p = "slack"    -> [token |-> cfg.slack.token, channel |-> <<"#general">>]
      [] p = "telegram" -> [token |-> cfg.telegram.token,
                            chat_id |-> cfg.telegram.chat_id]
      [] p = "whatsapp" -> [account_sid |-> cfg.whatsapp.account_sid,
                            auth_token |-> cfg.whatsapp.auth_token,
                            from_number |-> cfg.whatsapp.from_number,
                            to_number |-> cfg.whatsapp.to_number]

\* One "if config.<p>.is_enabled(): try: notifiers[p] = <P>Notifier({...})":
\* the constructor's outcome for platform p.
TryConstruct(cfg, p, failing) == Construct(p, ConfigDict(cfg, p), p \in failing)

\* The position of a platform kind in initialize_notifiers.
OrderOf(p) == CHOOSE i \in 1..Len(PlatformOrder) : PlatformOrder[i] = p

\* A faulty variant of InitializeNotifiers: one try around the three blocks, so the
\* first construction that raises ends the initialization.
InitializeNotifiersStopsAtFault(cfg, failing) ==
    [p \in {q \in Platforms :
              /\ IsEnabled(cfg, q)
              /\ \A r \in Platforms :
                   (IsEnabled(cfg, r) /\ OrderOf(r) <= OrderOf(q))
                   => ~TryConstruct(cfg, r, failing).raised}
       |-> TryConstruct(cfg, p, failing).adapter]

\* initialize_notifiers: each enabled platform's adapter is constructed; a
\* construction that raises (the vendor clients in failing do) is logged and
\* skipped.
InitializeNotifiers(cfg, failing) ==
    [p \in {q \in Platforms :
              IsEnabled(cfg, q) /\ ~TryConstruct(cfg, q, failing).raised}
       |-> TryConstruct(cfg, p, failing).adapter]

\* list(notifiers.keys())
KeyList(reg) == SelectSeq(PlatformOrder, LAMBDA p : p \in DOMAIN reg)

(* ------------------------ adapters: send_message ---------------------- *)

\* What a call returns: a value, or a raised exception with its str().
Return(v) == [raised |-> FALSE, value |-> v, error |-> NULL]
Raise(msg) == [raised |-> TRUE, value |-> FALSE, error |-> msg]

\* A faulty variant of SlackSendMessage: a rejected call is swallowed and reported by
\* returning False instead of re-raising.
SlackSendMessageSwallows(adapter, vendor) ==
    IF ~adapter.client THEN Raise("Slack client not initialized")
    ELSE IF vendor = "accept" THEN Return(TRUE)
    ELSE Return(FALSE)

\* SlackNotifier.send_message: True once chat_postMessage returns; the
\* SlackApiError of a rejected call is logged and re-raised.
SlackSendMessage(adapter, vendor) ==
    IF ~adapter.client THEN Raise("Slack client not initialized")
    ELSE IF vendor = "accept" THEN Return(TRUE)
    ELSE Raise("SlackApiError")

\* TelegramNotifier.send_message: the vendor call is a coroutine driven by
\* asyncio.run, which raises RuntimeError (not a TelegramError, so it is not
\* caught here) when the calling thread already runs an event loop.
TelegramSendMessage(adapter, vendor, inLoop) ==
    IF ~adapter.client THEN Raise("Telegram bot not initialized")
    ELSE IF inLoop
    THEN Raise("asyncio.run() cannot be called from a running event loop")
    ELSE IF vendor = "accept" THEN Return(TRUE)
    ELSE Raise("TelegramError")

\* WhatsAppNotifier.send_message: True once messages.create returns; the
\* TwilioRestException of a rejected call is logged and re-raised.
WhatsAppSendMessage(adapter, vendor) ==
    IF ~adapter.client THEN Raise("Twilio client not initialized")
    ELSE IF vendor = "accept" THEN Return(TRUE)
    ELSE Raise("TwilioRestException")

\* The from_ and to that WhatsAppNotifier.send_message hands to
\* messages.create; kwargs may carry a to_number override.
WhatsAppSendArgs(adapter, kwargs) ==
    [from_ |-> adapter.config["from_number"],
     to |-> EnsurePrefix(IF "to_number" \in DOMAIN kwargs
                         THEN kwargs["to_number"]
                         ELSE adapter.config["to_number"])]

\* notifier.send_message(request.message), dispatched on the adapter's class
SendMessage(adapter, vendor, inLoop) ==
    CASE adapter.kind = "slack"    -> SlackSendMessage(adapter, vendor)
      [] adapter.kind = "telegram" -> TelegramSendMessage(adapter, vendor, inLoop)
      [] adapter.kind = "whatsapp" -> WhatsAppSendMessage(adapter, vendor)

(* ------------------------------ /notify ------------------------------ *)

\* notify is an async def: the framework runs it inside its event loop.
HandlerInEventLoop == TRUE

\* A faulty variant of RequestIsValid: the message field without min_length=1.
RequestIsValidNoMinLength(req) == req.message # ABSENT

\* NotifyRequest: message is required with min_length=1; platforms is an
\* optional list of strings (None when omitted).
RequestIsValid(req) == req.message # ABSENT /\ Len(req.message) >= 1

\* A faulty variant of ResolvePlatforms: the default is every known platform kind
\* instead of the registry's keys.
ResolvePlatformsAllKinds(req, reg) ==
    IF req.has_platforms /\ req.platforms # <<>> THEN req.platforms
    ELSE PlatformOrder

\* request.platforms if request.platforms else list(notifiers.keys())
ResolvePlatforms(req, reg) ==
    IF req.has_platforms /\ req.platforms # <<>> THEN req.platforms
    ELSE KeyList(reg)

\* A faulty variant of InvalidPlatforms: only the first identifier is checked.
InvalidPlatformsFirstOnly(platforms, reg) ==
    IF platforms # <<>> /\ platforms[1] \notin DOMAIN reg
    THEN <<platforms[1]>>
    ELSE <<>>

\* [p for p in platforms if p not in notifiers]
InvalidPlatforms(platforms, reg) ==
    SelectSeq(platforms, LAMBDA p : p \notin DOMAIN reg)

\* PlatformResult(success=..., error=...)
PlatformResult(success, error) == [success |-> success, error |-> error]

\* The loop's locals before its first iteration.
LoopStart == [results |-> EmptyDict, success_count |-> 0, log |-> <<>>,
              events |-> <<>>]

\* notifier.send_message(...) is entered: the send is in flight.
IssueSend(st, platform) ==
    [st EXCEPT !.events = Append(@, [kind |-> "issued", platform |-> platform])]

\* notifier.send_message(...) has returned or raised r: the rest of the try
\* body, or the except.
CompleteSend(st, platform, vendor, r) ==
    LET sent == Append(st.log, [platform |-> platform, vendor |-> vendor,
                                outcome |-> r])
        done == Append(st.events, [kind |-> "completed", platform |-> platform])
    IN  IF r.raised
        THEN [results |-> DictSet(st.results, platform,
                                  PlatformResult(FALSE, r.error)),
              success_count |-> st.success_count,
              log |-> sent, events |-> done]
        ELSE [results |-> DictSet(st.results, platform,
                                  PlatformResult(r.value, NULL)),
              success_count |-> st.success_count + (IF r.value THEN 1 ELSE 0),
              log |-> sent, events |-> done]

\* One iteration of "for platform in platforms": the try body and its except.
\* send_message is a plain blocking call: it has completed when it returns.
NotifyStep(st, platform, vendor, reg) ==
    IF platform \notin DOMAIN reg
    THEN \* notifiers[platform] raises KeyError inside the try
         [st EXCEPT !.results =
             DictSet(st.results, platform, PlatformResult(FALSE, "KeyError"))]
    ELSE CompleteSend(IssueSend(st, platform), platform, vendor,
                      SendMessage(reg[platform], vendor, HandlerInEventLoop))

\* A faulty variant of SendLoop: every send is issued first and the results are
\* joined afterwards.
RECURSIVE IssueFrom(_, _, _)
IssueFrom(platforms, i, st) ==
    IF i > Len(platforms) THEN st
    ELSE IssueFrom(platforms, i + 1, IssueSend(st, platforms[i]))

RECURSIVE JoinFrom(_, _, _, _, _)
JoinFrom(platforms, vendor, reg, i, st) ==
    IF i > Len(platforms) THEN st
    ELSE JoinFrom(platforms, vendor, reg, i + 1,
                  CompleteSend(st, platforms[i], vendor[i],
                               SendMessage(reg[platforms[i]], vendor[i],
                                           HandlerInEventLoop)))

SendLoopGathers(platforms, vendor, reg, i, st) ==
    JoinFrom(platforms, vendor, reg, i, IssueFrom(platforms, i, st))

\* A faulty variant of SendLoop: one try around the whole loop, so the first fault
\* ends it.
RECURSIVE SendLoopStopsAtFault(_, _, _, _, _)
SendLoopStopsAtFault(platforms, vendor, reg, i, st) ==
    IF i > Len(platforms) \/ \E p \in DOMAIN st.results : ~st.results[p].success
    THEN st
    ELSE SendLoopStopsAtFault(platforms, vendor, reg, i + 1,
                              NotifyStep(st, platforms[i], vendor[i], reg))

\* The loop from its i-th iteration on; vendor[i] is the vendor service's
\* answer to the i-th iteration's call.
RECURSIVE SendLoop(_, _, _, _, _)
SendLoop(platforms, vendor, reg, i, st) ==
    IF i > Len(platforms) THEN st
    ELSE SendLoop(platforms, vendor, reg, i + 1,
                  NotifyStep(st, platforms[i], vendor[i], reg))

\* The responses of /notify. body names the shape of the body: "validation"
\* (the framework's request-validation error), "invalid_platforms" (the 400
\* detail with error and available_platforms), "failed" (the 500 detail with
\* the aggregate's keys) and "aggregate" (NotifyResponse).
Response(status, body, total, successful, results, invalid, available) ==
    [status |-> status, body |-> body, total_platforms |-> total,
     successful |-> successful, results |-> results,
     invalid |-> invalid, available |-> available]

\* FastAPI answers a body that fails NotifyRequest's validation with 422,
\* before the handler runs (tests/test_app.py:66).
ValidationStatus == 422

ValidationResponse ==
    Response(ValidationStatus, "validation", 0, 0, EmptyDict, <<>>, <<>>)

\* HTTPException(400) of the platform check
InvalidPlatformsResponse(invalid, reg) ==
    Response(400, "invalid_platforms", 0, 0, EmptyDict, invalid, KeyList(reg))

\* A faulty variant of Classify: 500 unless every platform succeeded.
ClassifyAllOrNothing(platforms, st) ==
    IF st.success_count < Len(platforms)
    THEN Response(500, "failed", Len(platforms), 0, st.results, <<>>, <<>>)
    ELSE Response(200, "aggregate", Len(platforms), st.success_count,
                  st.results, <<>>, <<>>)

\* A faulty variant of Classify: total_platforms is len(results).
ClassifyCountsResults(platforms, st) ==
    IF st.success_count = 0
    THEN Response(500, "failed", Cardinality(DOMAIN st.results), 0,
                  st.results, <<>>, <<>>)
    ELSE Response(200, "aggregate", Cardinality(DOMAIN st.results),
                  st.success_count, st.results, <<>>, <<>>)

\* The end of the handler: 500 when nothing was sent successfully, else the
\* NotifyResponse.
Classify(platforms, st) ==
    IF st.success_count = 0
    THEN Response(500, "failed", Len(platforms), 0, st.results, <<>>, <<>>)
    ELSE Response(200, "aggregate", Len(platforms), st.success_count,
                  st.results, <<>>, <<>>)

\* The handler builds the response from the loop's locals.
AggregateEvent == [kind |-> "aggregate", platform |-> "*"]

\* POST /notify from the request body to the response, with the log of the
\* send_message calls made on the way and the handler's events.
NotifyHandler(req, vendor, reg) ==
    IF ~RequestIsValid(req)
    THEN [response |-> ValidationResponse, log |-> <<>>, events |-> <<>>]
    ELSE LET platforms == ResolvePlatforms(req, reg)
             invalid_platforms == InvalidPlatforms(platforms, reg)
         IN  IF invalid_platforms # <<>>
             THEN [response |-> InvalidPlatformsResponse(invalid_platforms, reg),
                   log |-> <<>>, events |-> <<>>]
             ELSE LET st == SendLoop(platforms, vendor, reg, 1, LoopStart)
                  IN  [response |-> Classify(platforms, st), log |-> st.log,
                       events |-> Append(st.events, AggregateEvent)]

(* --------------------- adapters: test_connection ---------------------- *)

\* SlackNotifier.test_connection: False without a client or when auth_test
\* raises SlackApiError (logged, not re-raised), else True.
SlackTestConnection(adapter, vendor) ==
    IF ~adapter.client THEN Return(FALSE)
    ELSE IF vendor = "accept" THEN Return(TRUE)
    ELSE Return(FALSE)

\* TelegramNotifier.test_connection: get_me is driven by asyncio.run, whose
\* RuntimeError inside a running event loop is not a TelegramError and
\* propagates; a TelegramError is logged and answered False.
TelegramTestConnection(adapter, vendor, inLoop) ==
    IF ~adapter.client THEN Return(FALSE)
    ELSE IF inLoop
    THEN Raise("asyncio.run() cannot be called from a running event loop")
    ELSE IF vendor = "accept" THEN Return(TRUE)
    ELSE Return(FALSE)

\* WhatsAppNotifier.test_connection: False without a client or when the
\* account fetch raises TwilioRestException, else True.
WhatsAppTestConnection(adapter, vendor) ==
    IF ~adapter.client THEN Return(FALSE)
    ELSE IF vendor = "accept" THEN Return(TRUE)
    ELSE Return(FALSE)

\* notifier.test_connection(), dispatched on the adapter's class
TestConnection(adapter, vendor, inLoop) ==
    CASE adapter.kind = "slack"    -> SlackTestConnection(adapter, vendor)
      [] adapter.kind = "telegram" -> TelegramTestConnection(adapter, vendor, inLoop)
      [] adapter.kind = "whatsapp" -> WhatsAppTestConnection(adapter, vendor)

(* -------------------------- /test and /health ------------------------- *)

\* One entry of test_connections' results: the try body, or its except.
TestEntry(adapter, vendor) ==
    LET r == TestConnection(adapter, vendor, HandlerInEventLoop)
    IN  IF r.raised THEN [success |-> FALSE, error |-> r.error]
        ELSE [success |-> r.value, error |-> NULL]

\* GET /test: one entry per item of the registry; vendor[p] is the vendor
\* service's answer to platform p's check.
TestConnectionsHandler(reg, vendor) ==
    [status |-> 200, body |-> "test",
     results |-> [p \in DOMAIN reg |-> TestEntry(reg[p], vendor[p])]]

\* GET /health
HealthCheckHandler(reg) ==
    [status |-> 200, body |-> "health", health |-> "healthy",
     enabled_platforms |-> KeyList(reg), version |-> "0.2.0"]

(* ------------------------------ requests ----------------------------- *)

\* Sequences over S of length at most n
SeqUpTo(S, n) == UNION {[1..k -> S] : k \in 0..n}

\* A request body: the message key, and the platforms key when it is given.
Requests ==
    [message : Messages, has_platforms : {TRUE},
     platforms : SeqUpTo(PlatformIds, MaxPlatforms)]
    \cup [message : Messages, has_platforms : {FALSE}, platforms : {<<>>}]

NoRequest == [message |-> ABSENT, has_platforms |-> FALSE, platforms |-> <<>>]
NoResponse == Response(0, "none", 0, 0, EmptyDict, <<>>, <<>>)

(* ------------------- adapter classes, used directly ------------------- *)

\* The dicts over some of the keys of vals, key k taking its value in vals[k].
Dicts(vals) ==
    UNION {{d \in [K -> UNION {vals[k] : k \in K}] : \A k \in K : d[k] \in vals[k]}
             : K \in SUBSET DOMAIN vals}

\* An address as a caller may write it: empty, bare, prefixed, or prefixed twice.
AddressValues == NumberValues \cup {<<PREFIX, PREFIX, "+14155238886">>}

\* The config dicts a caller may hand to a platform kind's constructor.
AdapterDicts(kind) ==
    CASE kind = "slack" ->
           Dicts([token |-> FieldValues, channel |-> {<<"#test">>}])
      [] kind = "telegram" ->
           Dicts([token |-> FieldValues, chat_id |-> FieldValues])
      [] kind = "whatsapp" ->
           Dicts([account_sid |-> FieldValues, auth_token |-> FieldValues,
                  from_number |-> AddressValues, to_number |-> AddressValues])

\* The keyword arguments of a direct send_message call.
SendKwargs(kind) ==
    IF kind = "whatsapp" THEN Dicts([to_number |-> AddressValues])
    ELSE {EmptyDict}

\* No adapter class has been used directly.
NoUnit ==
    [op |-> "none", kind |-> "none", dict |-> EmptyDict, adapter |-> NoAdapter,
     outcome |-> Return(FALSE), kwargs |-> EmptyDict, sent |-> EmptyDict]

(* ------------------------------ actions ------------------------------ *)

Init ==
    /\ pc = "boot"
    /\ config \in Configs
    /\ faults = {}
    /\ notifiers = EmptyDict
    /\ route = "none"
    /\ request = NoRequest
    /\ response = NoResponse
    /\ calls = <<>>
    /\ events = <<>>
    /\ unit = NoUnit

\* startup_event when config.validate() raises: the exception is logged and
\* re-raised, and the application does not start.
StartupAbort ==
    /\ pc = "boot"
    /\ ConfigValidateRaises(config)
    /\ pc' = "aborted"
    /\ UNCHANGED <<config, faults, notifiers, route, request, response, calls,
                   events, unit>>

\* startup_event otherwise: initialize_notifiers fills the registry; the
\* constructions of the platforms in failing raise.
Startup ==
    /\ pc = "boot"
    /\ ~ConfigValidateRaises(config)
    /\ \E failing \in SUBSET GetEnabledPlatforms(config) :
          /\ notifiers' = InitializeNotifiers(config, failing)
          /\ faults' = failing
    /\ pc' = "serving"
    /\ UNCHANGED <<config, route, request, response, calls, events, unit>>

\* POST /notify with body req; vendor[i] is the vendor service's answer to
\* the i-th send.
Notify ==
    /\ pc = "serving"
    /\ \E req \in Requests :
         \E vendor \in [1..Len(ResolvePlatforms(req, notifiers)) -> VendorOutcomes] :
            LET out == NotifyHandler(req, vendor, notifiers)
            IN  /\ request' = req
                /\ response' = out.response
                /\ calls' = out.log
                /\ events' = out.events
    /\ route' = "/notify"
    /\ pc' = "responding"
    /\ UNCHANGED <<config, faults, notifiers, unit>>

\* A faulty variant of TestConnections: an adapter whose check does not succeed is
\* dropped from the registry.
TestConnectionsEvicts ==
    /\ pc = "serving"
    /\ \E vendor \in [DOMAIN notifiers -> VendorOutcomes] :
         LET out == TestConnectionsHandler(notifiers, vendor)
         IN  /\ response' = out
             /\ notifiers' = [p \in {q \in DOMAIN notifiers : out.results[q].success}
                                |-> notifiers[p]]
    /\ route' = "/test"
    /\ request' = NoRequest
    /\ calls' = <<>>
    /\ events' = <<>>
    /\ pc' = "responding"
    /\ UNCHANGED <<config, faults, unit>>

\* GET /test; vendor[p] is the vendor service's answer to platform p's check.
TestConnections ==
    /\ pc = "serving"
    /\ \E vendor \in [DOMAIN notifiers -> VendorOutcomes] :
         response' = TestConnectionsHandler(notifiers, vendor)
    /\ route' = "/test"
    /\ request' = NoRequest
    /\ calls' = <<>>
    /\ events' = <<>>
    /\ pc' = "responding"
    /\ UNCHANGED <<config, faults, notifiers, unit>>

\* GET /health
HealthCheck ==
    /\ pc = "serving"
    /\ response' = HealthCheckHandler(notifiers)
    /\ route' = "/health"
    /\ request' = NoRequest
    /\ calls' = <<>>
    /\ events' = <<>>
    /\ pc' = "responding"
    /\ UNCHANGED <<config, faults, notifiers, unit>>

\* The framework writes the response out; the handler's locals are gone and
\* the server waits for the next request.
Deliver ==
    /\ pc = "responding"
    /\ pc' = "serving"
    /\ route' = "none"
    /\ request' = NoRequest
    /\ response' = NoResponse
    /\ calls' = <<>>
    /\ events' = <<>>
    /\ UNCHANGED <<config, faults, notifiers, unit>>

Next ==
    StartupAbort \/ Startup \/ Notify \/ TestConnections \/ HealthCheck \/ Deliver

Spec == Init /\ [][Next]_vars

\* The adapter classes are imported on their own, no application started
\* (tests/test_notifiers.py).
InitDirect ==
    /\ pc = "direct"
    /\ config = [slack    |-> [token |-> UNSET],
                 telegram |-> [token |-> UNSET, chat_id |-> UNSET],
                 whatsapp |-> [account_sid |-> UNSET, auth_token |-> UNSET,
                               from_number |-> UNSET, to_number |-> UNSET]]
    /\ faults = {}
    /\ notifiers = EmptyDict
    /\ route = "none"
    /\ request = NoRequest
    /\ response = NoResponse
    /\ calls = <<>>
    /\ events = <<>>
    /\ unit = NoUnit

\* <Kind>Notifier(d), called directly.
ConstructAdapter ==
    /\ pc = "direct"
    /\ unit.op = "none"
    /\ \E kind \in Platforms : \E d \in AdapterDicts(kind) : \E clientRaises \in BOOLEAN :
         LET r == Construct(kind, d, clientRaises)
         IN  unit' = [op |-> "construct", kind |-> kind, dict |-> d,
                      adapter |-> r.adapter,
                      outcome |-> IF r.raised THEN Raise(r.error) ELSE Return(TRUE),
                      kwargs |-> EmptyDict, sent |-> EmptyDict]
    /\ UNCHANGED <<pc, config, faults, notifiers, route, request, response, calls,
                   events>>

\* notifier.send_message(message, **kwargs) on the object built, from a
\* caller that runs an event loop or not.
AdapterSendMessage ==
    /\ pc = "direct"
    /\ unit.op = "construct"
    /\ unit.adapter # NoAdapter
    /\ \E vendor \in VendorOutcomes : \E inLoop \in BOOLEAN :
       \E kwargs \in SendKwargs(unit.kind) :
         unit' = [unit EXCEPT
                    !.op = "send",
                    !.kwargs = kwargs,
                    !.outcome = SendMessage(unit.adapter, vendor, inLoop),
                    !.sent = IF unit.kind = "whatsapp" /\ unit.adapter.client
                             THEN WhatsAppSendArgs(unit.adapter, kwargs)
                             ELSE EmptyDict]
    /\ UNCHANGED <<pc, config, faults, notifiers, route, request, response, calls,
                   events>>

\* notifier.test_connection() on the object built.
AdapterTestConnection ==
    /\ pc = "direct"
    /\ unit.op = "construct"
    /\ unit.adapter # NoAdapter
    /\ \E vendor \in VendorOutcomes : \E inLoop \in BOOLEAN :
         unit' = [unit EXCEPT
                    !.op = "test",
                    !.outcome = TestConnection(unit.adapter, vendor, inLoop)]
    /\ UNCHANGED <<pc, config, faults, notifiers, route, request, response, calls,
                   events>>

\* The adapter classes as the application's startup builds them and as a
\* direct caller builds and uses them.
InitAdapters == Init \/ InitDirect

NextAdapters ==
    \/ StartupAbort
    \/ Startup
    \/ ConstructAdapter
    \/ AdapterSendMessage
    \/ AdapterTestConnection

AdapterSpec == InitAdapters /\ [][NextAdapters]_vars

(* ------------------------- reading a response ------------------------ *)

\* A response to a /notify request is ready.
Responded == pc = "responding" /\ route = "/notify"

\* The request carries a non-empty message.
HasMessage == request.message \notin {ABSENT, ""}

\* The response carries per-platform results (200, or the all-failed 500).
CarriesResults == response.body \in {"aggregate", "failed"}

\* The platforms on which send_message was invoked, in call order.
CalledPlatforms == [i \in 1..Len(calls) |-> calls[i].platform]

CalledSet == {calls[i].platform : i \in 1..Len(calls)}

\* The i-th send_message call returned True.
Succeeded(i) == ~calls[i].outcome.raised /\ calls[i].outcome.value

\* The identifiers of an explicit platform list.
Named == {request.platforms[i] : i \in 1..Len(request.platforms)}

\* The results entries whose success is true.
SuccessfulEntries == {p \in DOMAIN response.results : response.results[p].success}

(* ------------------------------- claims ------------------------------ *)

\* C1: a request with a non-empty message whose platform list names at least
\* one identifier that is not a key of the registry is answered 400, and
\* send_message is invoked on no adapter, valid identifiers included.
C1_AllOrNothingValidation ==
    (Responded /\ HasMessage /\ request.has_platforms
       /\ Named \ DOMAIN notifiers # {})
    => (response.status = 400 /\ calls = <<>>)

\* C1 witness: a rejected list that names a registered platform too.
C1_Witness ==
    /\ Responded /\ HasMessage /\ request.has_platforms
    /\ Named \ DOMAIN notifiers # {}
    /\ Named \cap DOMAIN notifiers # {}
    /\ response.status = 400
    /\ calls = <<>>

\* C2: once target validation has passed, send_message is attempted on every
\* resolved platform, in order, whatever the outcomes of the others; a raised
\* fault is recorded as that platform's result (success false, the fault's
\* message) unless a later send to the same platform replaces it; and the
\* response is the aggregate (200) or the all-failed body (500), never a
\* request-level error.
C2_FailureIsolation ==
    (Responded /\ HasMessage
       /\ InvalidPlatforms(ResolvePlatforms(request, notifiers), notifiers) = <<>>)
    => /\ CalledPlatforms = ResolvePlatforms(request, notifiers)
       /\ CarriesResults
       /\ response.status \in {200, 500}
       /\ \A i \in 1..Len(calls) :
            (/\ calls[i].outcome.raised
             /\ \A j \in (i + 1)..Len(calls) : calls[j].platform # calls[i].platform)
            => /\ calls[i].platform \in DOMAIN response.results
               /\ response.results[calls[i].platform]
                    = [success |-> FALSE, error |-> calls[i].outcome.error]

\* C2 witness: the first send raised and a later one, to another platform,
\* was still made and succeeded.
C2_Witness ==
    /\ Responded
    /\ Len(calls) >= 2
    /\ calls[1].outcome.raised
    /\ calls[2].platform # calls[1].platform
    /\ Succeeded(2)
    /\ ~response.results[calls[1].platform].success
    /\ response.results[calls[1].platform].error = calls[1].outcome.error

\* C3: when at least one targeted adapter's send succeeds, the response is
\* 200 with the aggregate body, however many other platforms failed.
C3_PartialSuccessIsSuccess ==
    (Responded /\ \E i \in 1..Len(calls) : Succeeded(i))
    => (response.status = 200 /\ response.body = "aggregate")

\* C3 witness: a 200 response with one send succeeded and one failed.
C3_Witness ==
    /\ Responded
    /\ \E i \in 1..Len(calls) : Succeeded(i)
    /\ \E i \in 1..Len(calls) : calls[i].outcome.raised
    /\ response.status = 200
    /\ response.successful < response.total_platforms

\* C4 (as claimed): a request ends in total failure (500, successful = 0)
\* exactly when at least one send was attempted and none succeeded.
C4_TotalFailureIffAttemptedAndNoneSucceeded ==
    Responded =>
      ((response.status = 500 /\ response.successful = 0)
        <=> (calls # <<>> /\ \A i \in 1..Len(calls) : ~Succeeded(i)))

\* C5: for a non-empty message and a non-empty explicit list of registered
\* platforms, the results mapping has an entry for exactly the requested
\* platforms and total_platforms is the length of the requested list.
C5_OneEntryPerRequestedPlatform ==
    (Responded /\ HasMessage /\ request.has_platforms
       /\ request.platforms # <<>> /\ Named \subseteq DOMAIN notifiers)
    => /\ CarriesResults
       /\ DOMAIN response.results = Named
       /\ response.total_platforms = Len(request.platforms)

\* C5 witness: two different registered platforms requested and answered.
C5_Witness ==
    /\ Responded /\ HasMessage /\ request.has_platforms
    /\ Len(request.platforms) = 2
    /\ request.platforms[1] # request.platforms[2]
    /\ Named \subseteq DOMAIN notifiers
    /\ DOMAIN response.results = Named
    /\ response.total_platforms = 2

\* C6 (as claimed): in every response that carries results, successful is
\* the number of results entries whose success is true.
C6_SuccessfulCountsEntries ==
    (Responded /\ CarriesResults)
    => response.successful = Cardinality(SuccessfulEntries)

\* C7: in every response that carries results, a platform's error is
\* non-null exactly when its success is false.
C7_ErrorIffFailed ==
    (Responded /\ CarriesResults)
    => \A p \in DOMAIN response.results :
          (response.results[p].error # NULL) <=> ~response.results[p].success

\* C7 witness: results with a failed entry carrying an error and a succeeded
\* entry whose error is null.
C7_Witness ==
    /\ Responded /\ CarriesResults
    /\ \E p \in DOMAIN response.results :
          ~response.results[p].success /\ response.results[p].error # NULL
    /\ \E p \in DOMAIN response.results :
          response.results[p].success /\ response.results[p].error = NULL

\* C8 (as claimed, read on a registry that holds adapters): an explicit empty
\* platform list is rejected with 400 and no adapter is invoked; it is not
\* expanded to the registry's keys.
C8_EmptyListRejected ==
    (Responded /\ HasMessage /\ request.has_platforms /\ request.platforms = <<>>
       /\ DOMAIN notifiers # {})
    => (response.status = 400 /\ calls = <<>>)

\* C9: when the platforms field is omitted, send_message is attempted on
\* exactly the registry's keys.
C9_OmittedMeansRegistry ==
    (Responded /\ HasMessage /\ ~request.has_platforms)
    => CalledSet = DOMAIN notifiers

\* C9 witness: platforms omitted, a registry of two or more adapters, and a
\* send attempted on each.
C9_Witness ==
    /\ Responded /\ HasMessage /\ ~request.has_platforms
    /\ Cardinality(DOMAIN notifiers) >= 2
    /\ CalledSet = DOMAIN notifiers

\* C10 (as claimed): a request whose message is empty or absent is rejected
\* with 400 and no adapter's send_message is invoked.
C10_EmptyMessageIs400 ==
    (Responded /\ ~HasMessage) => (response.status = 400 /\ calls = <<>>)

\* C10 (amended): a request whose message is empty or absent is rejected
\* with the framework's validation status 422 and no adapter's send_message
\* is invoked.
C10_EmptyMessageIs422 ==
    (Responded /\ ~HasMessage) => (response.status = 422 /\ calls = <<>>)

\* C10 witness: an empty message is rejected with 422 while the registry
\* holds adapters, none of which is invoked.
C10_Witness ==
    /\ Responded /\ request.message = ""
    /\ DOMAIN notifiers # {}
    /\ response.status = 422
    /\ calls = <<>>

\* C11 (as claimed): the process never serves requests with an empty
\* registry, whether no platform is enabled or every enabled platform's
\* adapter construction failed.
C11_NeverServesEmptyRegistry ==
    pc \in {"serving", "responding"} => DOMAIN notifiers # {}

\* The configuration fields a platform needs, all non-empty, to be enabled.
NeededFields(p) ==
    CASE p = "slack"    -> {"token"}
      [] p = "telegram" -> {"token", "chat_id"}
      [] p = "whatsapp" -> {"account_sid", "auth_token", "from_number", "to_number"}

FullyConfigured(p) == \A f \in NeededFields(p) : config[p][f] # <<>>

\* The application got through startup.
Started == pc \in {"serving", "responding"}

\* C12: a construction that fails leaves only that platform out: startup is
\* aborted only when no platform is enabled, and after initialization the
\* registry's keys are exactly the enabled platforms whose construction did
\* not raise.
C12_BestEffortInitialization ==
    /\ pc = "aborted" => \A p \in Platforms : ~FullyConfigured(p)
    /\ Started =>
         DOMAIN notifiers = {p \in Platforms : FullyConfigured(p)} \ faults

\* C12 witness: the application serves although an earlier platform's
\* construction raised, with a later platform registered.
C12_Witness ==
    /\ Started
    /\ \E p \in faults : \E q \in DOMAIN notifiers : OrderOf(p) < OrderOf(q)

\* A response of the named endpoint is ready.
Answered(endpoint) == pc = "responding" /\ route = endpoint

\* C13 (as claimed): GET /test returns one entry per registered platform, and
\* every entry whose success is false carries a non-null error, also when
\* test_connection reports the fault by returning false.
C13_FalseTestCarriesError ==
    Answered("/test")
    => /\ DOMAIN response.results = DOMAIN notifiers
       /\ \A p \in DOMAIN response.results :
            ~response.results[p].success => response.results[p].error # NULL

\* The registry's keys as startup established them.
StartupKeys == {p \in Platforms : FullyConfigured(p)} \ faults

\* C14: once the application has started, no step of /health, /test or
\* /notify, whatever the adapters' outcomes, changes the registry, and the
\* enabled_platforms of every /health response are the keys established at
\* startup.
C14_RegistryReadOnly ==
    [][Started =>
         /\ notifiers' = notifiers
         /\ (pc' = "responding" /\ route' = "/health")
            => /\ {response'.enabled_platforms[i] :
                     i \in 1..Len(response'.enabled_platforms)} = StartupKeys
               /\ Len(response'.enabled_platforms) = Cardinality(StartupKeys)]_vars

\* C14 witness: a /health response listing a registry of two or more
\* adapters, left out of which is a platform whose construction failed.
C14_Witness ==
    /\ Answered("/health")
    /\ Len(response.enabled_platforms) >= 2
    /\ faults # {}
    /\ \A i \in 1..Len(response.enabled_platforms) :
          response.enabled_platforms[i] \in DOMAIN notifiers

\* C16 (as claimed, read on the handler's one schedule): in a request that
\* sends to two or more platforms, a send is issued while another is still
\* in flight, and the aggregation comes after every send has completed.
C16_SendsOverlap ==
    (Responded /\ Cardinality(CalledSet) >= 2)
    => /\ \E i \in 1..(Len(events) - 1) :
            events[i].kind = "issued" /\ events[i + 1].kind = "issued"
       /\ events[Len(events)] = AggregateEvent

\* C16 (amended): the sends of a request are issued one at a time in list
\* order, each completed before the next is issued, and the aggregation
\* comes after the last has completed; a rejected request issues none.
C16_SendsAreSequential ==
    Responded =>
      IF CarriesResults
      THEN /\ Len(events) = 2 * Len(calls) + 1
           /\ events[Len(events)] = AggregateEvent
           /\ \A i \in 1..Len(calls) :
                /\ events[2 * i - 1] = [kind |-> "issued", platform |-> calls[i].platform]
                /\ events[2 * i] = [kind |-> "completed", platform |-> calls[i].platform]
      ELSE events = <<>>

\* C16 witness: a request that sent to two different platforms, the second
\* send issued after the first had completed.
C16_Witness ==
    /\ Responded
    /\ Len(calls) = 2
    /\ calls[1].platform # calls[2].platform
    /\ events[2] = [kind |-> "completed", platform |-> calls[1].platform]
    /\ events[3] = [kind |-> "issued", platform |-> calls[2].platform]
    /\ events[5] = AggregateEvent

\* C17 (as claimed): when /notify dispatches to an adapter whose vendor
\* service accepts the message, send_message returns true, and the platform's
\* result is success=true unless a later send to it says otherwise; for each
\* of the three adapters.
C17_AcceptedSendSucceeds ==
    Responded =>
      \A i \in 1..Len(calls) :
         calls[i].vendor = "accept"
         => /\ Succeeded(i)
            /\ (\A j \in (i + 1)..Len(calls) : calls[j].platform # calls[i].platform)
               => response.results[calls[i].platform].success

\* The number of times the prefix occurs in an address.
PrefixCount(s) == Cardinality({i \in 1..Len(s) : s[i] = PREFIX})

\* The address starts with the prefix and carries it nowhere else.
ExactlyOnePrefix(s) == StartsWithPrefix(s) /\ PrefixCount(s) = 1

\* An address as the claim takes it: without the prefix, or with it once.
PlainOrPrefixed(s) == PrefixCount(s) = 0 \/ ExactlyOnePrefix(s)

\* The WhatsApp adapter objects there are, each with the dict it was built
\* from: the registry's and the one built directly.
WhatsAppObjects ==
    {[given |-> ConfigDict(config, "whatsapp"), adapter |-> notifiers[p]]
       : p \in DOMAIN notifiers \cap {"whatsapp"}}
    \cup (IF unit.kind = "whatsapp" /\ unit.adapter # NoAdapter
          THEN {[given |-> unit.dict, adapter |-> unit.adapter]} ELSE {})

\* C15: address normalisation is idempotent. Once validate_config has
\* succeeded, from_number and to_number each start with the prefix, and
\* normalising them again changes nothing; they carry it exactly once when the
\* value given was bare or prefixed once. The from_ and to that send_message
\* uses, a to_number override included, carry it exactly once likewise.
C15_PrefixNormalizationIdempotent ==
    /\ \A o \in WhatsAppObjects : \A f \in {"from_number", "to_number"} :
         /\ StartsWithPrefix(o.adapter.config[f])
         /\ EnsurePrefix(o.adapter.config[f]) = o.adapter.config[f]
         /\ PlainOrPrefixed(o.given[f]) => ExactlyOnePrefix(o.adapter.config[f])
    /\ (unit.op = "send" /\ unit.kind = "whatsapp")
       => LET dest == IF "to_number" \in DOMAIN unit.kwargs
                      THEN unit.kwargs["to_number"] ELSE unit.dict["to_number"]
          IN  /\ StartsWithPrefix(unit.sent.to)
              /\ EnsurePrefix(unit.sent.to) = unit.sent.to
              /\ PlainOrPrefixed(dest) => ExactlyOnePrefix(unit.sent.to)
              /\ PlainOrPrefixed(unit.dict["from_number"])
                 => ExactlyOnePrefix(unit.sent.from_)

\* C15 witness: an adapter built from an already prefixed from_number and a
\* bare to_number has sent to a bare to_number given with the call, and the
\* destination used carries the prefix once.
C15_Witness ==
    /\ unit.op = "send"
    /\ unit.kind = "whatsapp"
    /\ unit.dict["from_number"] = <<PREFIX, "+14155238886">>
    /\ unit.dict["to_number"] = <<"+14155238886">>
    /\ unit.adapter.config["from_number"] = <<PREFIX, "+14155238886">>
    /\ unit.adapter.config["to_number"] = <<PREFIX, "+14155238886">>
    /\ "to_number" \in DOMAIN unit.kwargs
    /\ unit.kwargs["to_number"] = <<"+14155238886">>
    /\ unit.sent.to = <<PREFIX, "+14155238886">>

\* The required fields of a platform kind's adapter, in the order
\* validate_config checks them.
CheckOrder(kind) ==
    CASE kind = "slack"    -> <<"token">>
      [] kind = "telegram" -> <<"token", "chat_id">>
      [] kind = "whatsapp" -> <<"account_sid", "auth_token", "from_number", "to_number">>
      [] OTHER             -> <<>>

\* The error that names a required field of a platform kind.
NamesField(kind, field) ==
    CASE kind = "slack"    -> "Slack token is required"
      [] kind = "telegram" -> IF field = "token" THEN "Telegram token is required"
                              ELSE "Telegram chat_id is required"
      [] kind = "whatsapp" -> WhatsAppRequiredError(field)

\* The required fields, in check order, that a dict lacks or holds empty.
MissingInOrder(kind, d) == SelectSeq(CheckOrder(kind), LAMBDA f : Missing(d, f))

\* The errors of the 'client not initialized' branches of send_message.
NotInitializedErrors ==
    {"Slack client not initialized", "Telegram bot not initialized",
     "Twilio client not initialized"}

\* An adapter object that passed validation: its client handle is set and no
\* required field of its configuration is missing or empty.
Validated(adapter) ==
    /\ adapter.client
    /\ MissingInOrder(adapter.kind, adapter.config) = <<>>

\* C18: an adapter object exists only if validate_config succeeded on its
\* configuration. Constructing an adapter with a missing or empty required
\* field raises the error naming the first such field in check order and
\* yields no object; every adapter in the registry, and every one built
\* directly, has its client handle, and send_message never raises the
\* 'client not initialized' error.
C18_AdapterExistsOnlyIfValidated ==
    /\ (unit.op = "construct" /\ MissingInOrder(unit.kind, unit.dict) # <<>>)
       => /\ unit.adapter = NoAdapter
          /\ unit.outcome.raised
          /\ unit.outcome.error
               = NamesField(unit.kind, MissingInOrder(unit.kind, unit.dict)[1])
    /\ unit.adapter # NoAdapter => Validated(unit.adapter)
    /\ \A p \in DOMAIN notifiers : notifiers[p].kind = p /\ Validated(notifiers[p])
    /\ \A p \in faults : p \notin DOMAIN notifiers
    /\ unit.op = "send" => unit.outcome.error \notin NotInitializedErrors

\* C18 witness: a WhatsApp constructor given a dict that lacks auth_token and
\* to_number raised the error naming auth_token, and there is no object.
C18_Witness ==
    /\ unit.op = "construct"
    /\ unit.kind = "whatsapp"
    /\ MissingInOrder("whatsapp", unit.dict) = <<"auth_token", "to_number">>
    /\ unit.outcome = Raise("WhatsApp auth_token is required")
    /\ unit.adapter = NoAdapter

=============================================================================
